---- MODULE Spec2Model ----
(***************************************************************************)
(* A model of style_checker.py: the rule registries, the per-line context  *)
(* analysis, the rule sweeps of check_file and score_func.                 *)
(*                                                                         *)
(* Text is modelled as it is: a line is a sequence of one-character        *)
(* strings and every regular expression of the source is written as a      *)
(* syntax tree that a small matcher (Ends, Search) interprets with the     *)
(* semantics of Python's re module.  A character outside ASCII is written  *)
(* as its code point ("U+00E9"), one element of the sequence.              *)
(***************************************************************************)
EXTENDS Integers, Sequences, FiniteSets, TLC

(***************************************************************************)
(* Characters and character classes of Python's re.                        *)
(***************************************************************************)
LowerSeq == <<"a", "b", "c", "d", "e", "f", "g", "h", "i", "j", "k", "l", "m",
              "n", "o", "p", "q", "r", "s", "t", "u", "v", "w", "x", "y", "z">>

UpperSeq == <<"A", "B", "C", "D", "E", "F", "G", "H", "I", "J", "K", "L", "M",
              "N", "O", "P", "Q", "R", "S", "T", "U", "V", "W", "X", "Y", "Z">>

Lower == {LowerSeq[i] : i \in 1..Len(LowerSeq)}

Upper == {UpperSeq[i] : i \in 1..Len(UpperSeq)}

Digit == {"0", "1", "2", "3", "4", "5", "6", "7", "8", "9"}

\* \w
WordChars == Lower \cup Upper \cup Digit \cup {"_"}

\* \s
SpaceChars == {" ", "\t", "\n", "\r", "\f"}

Punct == {"!", "\"", "#", "$", "%", "&", "'", "(", ")", "*", "+", ",", "-", ".",
          "/", ":", ";", "<", "=", ">", "?", "@", "[", "\\", "]", "^", "{",
          "|", "}", "~"}

\* the characters \x00-\x7F that occur in the model
Ascii == WordChars \cup SpaceChars \cup Punct

\* the other case of a letter, the character itself otherwise (re.IGNORECASE)
SwapCase(c) ==
    IF c \in Lower THEN UpperSeq[CHOOSE i \in 1..Len(LowerSeq) : LowerSeq[i] = c]
    ELSE IF c \in Upper THEN LowerSeq[CHOOSE i \in 1..Len(UpperSeq) : UpperSeq[i] = c]
    ELSE c

CharIn(c, cs, ic) == c \in cs \/ (ic /\ SwapCase(c) \in cs)

(***************************************************************************)
(* Regular expressions as syntax trees.                                    *)
(***************************************************************************)
Node(t, cs, sub, n) == [t |-> t, cs |-> cs, sub |-> sub, n |-> n]

\* [...]
Chr(cs) == Node("chr", cs, <<>>, 0)

\* [^...]
NotChr(cs) == Node("nchr", cs, <<>>, 0)

\* .  (no DOTALL: anything but a newline)
Dot == NotChr({"\n"})

\* r1 r2 ... rn
Cat(sub) == Node("cat", {}, sub, 0)

\* r1 | r2 | ... | rn
Alt(sub) == Node("alt", {}, sub, 0)

\* r{n,}
Rep(r, n) == Node("rep", {}, <<r>>, n)

Star(r) == Rep(r, 0)

Plus(r) == Rep(r, 1)

\* a literal word
Lit(w) == Cat([i \in 1..Len(w) |-> Chr({w[i]})])

\* ^ (no MULTILINE)
Bol == Node("bol", {}, <<>>, 0)

\* $ (no MULTILINE)
Eol == Node("eol", {}, <<>>, 0)

\* \b
WordB == Node("wordb", {}, <<>>, 0)

\* (?!r)
NegLook(r) == Node("nla", {}, <<r>>, 0)

IsWordAt(s, i) == i >= 1 /\ i <= Len(s) /\ s[i] \in WordChars

RECURSIVE Ends(_, _, _, _)
RECURSIVE EndsCat(_, _, _, _, _)
RECURSIVE EndsPow(_, _, _, _, _)
RECURSIVE Closure(_, _, _, _)

\* The positions where a match of re that starts at position i of s can end
\* (positions are 1-based: position i is before s[i], Len(s) + 1 is the end).
Ends(re, s, i, ic) ==
    CASE re.t = "chr" ->
           IF i <= Len(s) /\ CharIn(s[i], re.cs, ic) THEN {i + 1} ELSE {}
      [] re.t = "nchr" ->
           IF i <= Len(s) /\ ~CharIn(s[i], re.cs, ic) THEN {i + 1} ELSE {}
      [] re.t = "cat" -> EndsCat(re.sub, 1, s, {i}, ic)
      [] re.t = "alt" ->
           UNION {Ends(re.sub[k], s, i, ic) : k \in 1..Len(re.sub)}
      [] re.t = "rep" ->
           Closure(re.sub[1], s, EndsPow(re.sub[1], re.n, s, {i}, ic), ic)
      [] re.t = "bol" -> IF i = 1 THEN {i} ELSE {}
      [] re.t = "eol" ->
           IF i = Len(s) + 1 \/ (i = Len(s) /\ s[i] = "\n") THEN {i} ELSE {}
      [] re.t = "wordb" ->
           IF IsWordAt(s, i - 1) # IsWordAt(s, i) THEN {i} ELSE {}
      [] re.t = "nla" ->
           IF Ends(re.sub[1], s, i, ic) = {} THEN {i} ELSE {}

EndsCat(sub, k, s, P, ic) ==
    IF k > Len(sub) \/ P = {} THEN P
    ELSE EndsCat(sub, k + 1, s, UNION {Ends(sub[k], s, p, ic) : p \in P}, ic)

EndsPow(r, n, s, P, ic) ==
    IF n = 0 \/ P = {} THEN P
    ELSE EndsPow(r, n - 1, s, UNION {Ends(r, s, p, ic) : p \in P}, ic)

Closure(r, s, P, ic) ==
    LET N == P \cup UNION {Ends(r, s, p, ic) : p \in P}
    IN  IF N = P THEN P ELSE Closure(r, s, N, ic)

SetMin(S) == CHOOSE m \in S : \A x \in S : m <= x

MatchStarts(re, s, ic) == {i \in 1..(Len(s) + 1) : Ends(re, s, i, ic) # {}}

\* regex.search(s).start(): the 0-based start of the leftmost match, -1 for None
Search(re, s, ic) ==
    LET st == MatchStarts(re, s, ic)
    IN  IF st = {} THEN -1 ELSE SetMin(st) - 1

(***************************************************************************)
(* The rule registries.  A dict is a sequence of (key, value) pairs in     *)
(* insertion order.                                                        *)
(***************************************************************************)
HasKey(d, k) == \E i \in 1..Len(d) : d[i].name = k

\* a dict whose first value of a key would stay
DictSetKeepFirst(d, k, v) ==
    IF HasKey(d, k) THEN d ELSE Append(d, [name |-> k, re |-> v])

\* d[k] = v of a dict display: a key already present keeps its place and is
\* given the new value
DictSet(d, k, v) ==
    IF HasKey(d, k)
    THEN [i \in 1..Len(d) |-> IF d[i].name = k THEN [name |-> k, re |-> v] ELSE d[i]]
    ELSE Append(d, [name |-> k, re |-> v])

RECURSIVE DictDisplay(_, _, _)
\* {k1: v1, k2: v2, ...}: the items are stored left to right
DictDisplay(items, n, d) ==
    IF n > Len(items) THEN d
    ELSE DictDisplay(items, n + 1, DictSet(d, items[n].name, items[n].re))

Item(k, v) == [name |-> k, re |-> v]

\* [a-z0-9().]
Operand == Chr(Lower \cup Digit \cup {"(", ")", "."})

\* (([a-z0-9().]+\s+OP[a-z0-9().]+)|([a-z0-9().]+OP\s+[a-z0-9().]+))
OperatorSpacing(ops) ==
    Alt(<<Cat(<<Plus(Operand), Plus(Chr(SpaceChars)), Chr(ops), Plus(Operand)>>),
          Cat(<<Plus(Operand), Chr(ops), Plus(Chr(SpaceChars)), Plus(Operand)>>)>>)

ERROR_REGEXPS ==
    DictDisplay(<<
      \* \b(if|else|for|while|switch|case)\b[:\{\(]
      Item("control_statement_missing_space",
           Cat(<<WordB,
                 Alt(<<Lit(<<"i", "f">>), Lit(<<"e", "l", "s", "e">>),
                       Lit(<<"f", "o", "r">>), Lit(<<"w", "h", "i", "l", "e">>),
                       Lit(<<"s", "w", "i", "t", "c", "h">>),
                       Lit(<<"c", "a", "s", "e">>)>>),
                 WordB, Chr({":", "{", "("})>>)),
      \* elseif
      Item("else_if_missing_space", Lit(<<"e", "l", "s", "e", "i", "f">>)),
      Item("invalid_multiplicative_spacing", OperatorSpacing({"*", "/"})),
      Item("invalid_additive_spacing", OperatorSpacing({"+", "-"})),
      \* ^\s+#
      Item("preprocessor_not_flush_with_left_margin",
           Cat(<<Bol, Plus(Chr(SpaceChars)), Chr({"#"})>>)),
      \* [,;]\w
      Item("no_space_after_delimiter", Cat(<<Chr({",", ";"}), Chr(WordChars)>>)),
      \* ^(?!for|case);[^;]+;
      Item("more_than_one_statement_per_line",
           Cat(<<Bol,
                 NegLook(Alt(<<Lit(<<"f", "o", "r">>), Lit(<<"c", "a", "s", "e">>)>>)),
                 Chr({";"}), Plus(NotChr({";"})), Chr({";"})>>)),
      \* (\(\s)|(\s\))
      Item("paren_with_inner_space",
           Alt(<<Cat(<<Chr({"("}), Chr(SpaceChars)>>),
                 Cat(<<Chr(SpaceChars), Chr({")"})>>)>>)),
      \* (\[\s)|(\s\])
      Item("bracket_with_inner_space",
           Alt(<<Cat(<<Chr({"["}), Chr(SpaceChars)>>),
                 Cat(<<Chr(SpaceChars), Chr({"]"})>>)>>)),
      \* \)\{
      Item("paren_and_curly_without_separation", Lit(<<")", "{">>)),
      \* \b(?!(if|for|while|switch|else|return|void|int|char|double)\b)[a-z]+\s\(
      Item("function_with_space",
           Cat(<<WordB,
                 NegLook(Cat(<<
                   Alt(<<Lit(<<"i", "f">>), Lit(<<"f", "o", "r">>),
                         Lit(<<"w", "h", "i", "l", "e">>),
                         Lit(<<"s", "w", "i", "t", "c", "h">>),
                         Lit(<<"e", "l", "s", "e">>),
                         Lit(<<"r", "e", "t", "u", "r", "n">>),
                         Lit(<<"v", "o", "i", "d">>), Lit(<<"i", "n", "t">>),
                         Lit(<<"c", "h", "a", "r">>),
                         Lit(<<"d", "o", "u", "b", "l", "e">>)>>),
                   WordB>>)),
                 Plus(Chr(Lower)), Chr(SpaceChars), Chr({"("})>>)),
      \* //
      Item("single_line_comment", Lit(<<"/", "/">>)),
      \* \s\n$
      Item("line_ends_in_space", Cat(<<Chr(SpaceChars), Chr({"\n"}), Eol>>)),
      \* ^.{81,}$
      Item("line_longer_80_chars", Cat(<<Bol, Rep(Dot, 81), Eol>>))
    >>, 1, <<>>)

\* \sKEYWORD[^\{]*\n
BraceStyle(keyword) ==
    Cat(<<Chr(SpaceChars), Lit(keyword), Star(NotChr({"{"})), Chr({"\n"})>>)

FOR_BRACE_RE == BraceStyle(<<"f", "o", "r">>)

WHILE_BRACE_RE == BraceStyle(<<"w", "h", "i", "l", "e">>)

IF_BRACE_RE == BraceStyle(<<"i", "f">>)

ELSE_BRACE_RE == BraceStyle(<<"e", "l", "s", "e">>)

\* [a-z0-9]
AlNum == Chr(Lower \cup Digit)

\* \\w+\[\s*[a-z0-9]+(\s+[+-]\s*)|(\s*[+-]\s+)[a-z0-9]+\s*\]   (re.IGNORECASE)
SPACES_IN_ARRAY_ACCESS_RE ==
    Alt(<<Cat(<<Chr({"\\"}), Plus(Chr({"w"})), Chr({"["}), Star(Chr(SpaceChars)),
                Plus(AlNum), Plus(Chr(SpaceChars)), Chr({"+", "-"}),
                Star(Chr(SpaceChars))>>),
          Cat(<<Star(Chr(SpaceChars)), Chr({"+", "-"}), Plus(Chr(SpaceChars)),
                Plus(AlNum), Star(Chr(SpaceChars)), Chr({"]"})>>)>>)

WARNING_REGEXPS ==
    DictDisplay(<<
      Item("spaces_in_array_access", SPACES_IN_ARRAY_ACCESS_RE),
      Item("violation_of_one_true_brace_style", FOR_BRACE_RE),
      Item("violation_of_one_true_brace_style", WHILE_BRACE_RE),
      Item("violation_of_one_true_brace_style", IF_BRACE_RE),
      Item("violation_of_one_true_brace_style", ELSE_BRACE_RE)
    >>, 1, <<>>)

\* the flags the patterns of a registry are compiled with
WarningIgnoreCase(name) == name = "spaces_in_array_access"

COMMENT_CHECKS == {"line_longer_80_chars", "line_ends_in_space", "single_line_comment"}

\* ([\'\"])(.*?)\1 : the back-reference written out for each quote
IS_STRING_RE ==
    Alt(<<Cat(<<Chr({"'"}), Star(Dot), Chr({"'"})>>),
          Cat(<<Chr({"\""}), Star(Dot), Chr({"\""})>>)>>)

\* void|int|char|double|[A-Z]\w+
TypeName ==
    Alt(<<Lit(<<"v", "o", "i", "d">>), Lit(<<"i", "n", "t">>),
          Lit(<<"c", "h", "a", "r">>), Lit(<<"d", "o", "u", "b", "l", "e">>),
          Cat(<<Chr(Upper), Plus(Chr(WordChars))>>)>>)

\* (\b(void|int|char|double|[A-Z]\w+)\s*\*[),]*\s*\w*)
IS_POINTER_RE ==
    Cat(<<WordB, TypeName, Star(Chr(SpaceChars)), Chr({"*"}), Star(Chr({")", ","})),
          Star(Chr(SpaceChars)), Star(Chr(WordChars))>>)

\* (\b(void|int|char|double|[A-Z]\w+)\s+\w+\s*\(([^;]+)\))[^;]*$
IS_FUNCTION_DECLARATION_RE ==
    Cat(<<WordB, TypeName, Plus(Chr(SpaceChars)), Plus(Chr(WordChars)),
          Star(Chr(SpaceChars)), Chr({"("}), Plus(NotChr({";"})), Chr({")"}),
          Star(NotChr({";"})), Eol>>)

\* [^\x00-\x7F]
IS_NON_ASCII == NotChr(Ascii)

(***************************************************************************)
(* String operations of Python used by check_file.                         *)
(***************************************************************************)
\* s[a:b], 0-based, for 0 <= a
Slice(s, a, b) ==
    LET e == IF b < Len(s) THEN b ELSE Len(s)
    IN  IF a >= e THEN <<>> ELSE SubSeq(s, a + 1, e)

\* s.startswith(prefix, a, b)
StartsWith(s, prefix, a, b) ==
    LET w == Slice(s, a, b)
    IN  Len(w) >= Len(prefix) /\ SubSeq(w, 1, Len(prefix)) = prefix

\* sub in s
Contains(s, sub) ==
    \E i \in 0..(Len(s) - Len(sub)) : SubSeq(s, i + 1, i + Len(sub)) = sub

RECURSIVE LStrip(_)
LStrip(s) == IF s # <<>> /\ Head(s) \in SpaceChars THEN LStrip(Tail(s)) ELSE s

RECURSIVE RStrip(_)
RStrip(s) ==
    IF s # <<>> /\ s[Len(s)] \in SpaceChars THEN RStrip(SubSeq(s, 1, Len(s) - 1)) ELSE s

\* s.strip()
Strip(s) == RStrip(LStrip(s))

\* seq[i] of a Python list of length Len(seq): a negative index counts from
\* the end, an index out of range raises IndexError
InRange(seq, i) == i >= -Len(seq) /\ i < Len(seq)

Index(seq, i) == IF i < 0 THEN seq[Len(seq) + i + 1] ELSE seq[i + 1]

(***************************************************************************)
(* The lines that files are made of.  As f.readlines() returns them: every *)
(* line ends with its newline, except possibly the last line of a file.    *)
(***************************************************************************)
Corpus == <<
    \*  1: "\n"
    <<"\n">>,
    \*  2: "{\n"
    <<"{", "\n">>,
    \*  3: "int main(void)\n"
    <<"i", "n", "t", " ", "m", "a", "i", "n", "(", "v", "o", "i", "d", ")", "\n">>,
    \*  4: "x = 1;\n"
    <<"x", " ", "=", " ", "1", ";", "\n">>,
    \*  5: "s = \"a\"; // c \n"
    <<"s", " ", "=", " ", "\"", "a", "\"", ";", " ", "/", "/", " ", "c", " ", "\n">>,
    \*  6: "s = \"a\"; if(y)\n"
    <<"s", " ", "=", " ", "\"", "a", "\"", ";", " ", "i", "f", "(", "y", ")", "\n">>,
    \*  7: "int *p = f (q);\n"
    <<"i", "n", "t", " ", "*", "p", " ", "=", " ", "f", " ", "(", "q", ")", ";", "\n">>,
    \*  8: "/* if(x) else // z\n"
    <<"/", "*", " ", "i", "f", "(", "x", ")", " ", "e", "l", "s", "e", " ", "/", "/",
      " ", "z", "\n">>,
    \*  9: "\tif (x)\n"
    <<"\t", "i", "f", " ", "(", "x", ")", "\n">>,
    \* 10: "} else\n"
    <<"}", " ", "e", "l", "s", "e", "\n">>,
    \* 11: "  y = 2;\n"
    <<" ", " ", "y", " ", "=", " ", "2", ";", "\n">>,
    \* 12: "x = é;\n"
    <<"x", " ", "=", " ", "U+00E9", ";", "\n">>,
    \* 13: "/* " followed by 80 times "a" and "\n"
    <<"/", "*", " ">> \o [i \in 1..80 |-> "a"] \o <<"\n">>,
    \* 14: "a[i + 1] = 0;\n"
    <<"a", "[", "i", " ", "+", " ", "1", "]", " ", "=", " ", "0", ";", "\n">>,
    \* 15: "}"
    <<"}">>,
    \* 16: "if(x) s = \"a\";\n"
    <<"i", "f", "(", "x", ")", " ", "s", " ", "=", " ", "\"", "a", "\"", ";", "\n">>,
    \* 17: " * int *p\n"
    <<" ", "*", " ", "i", "n", "t", " ", "*", "p", "\n">>
>>

LineIds == 1..Len(Corpus)

(***************************************************************************)
(* The line context: what check_file computes of a line before the rule    *)
(* sweeps, and the result of each rule's search on the line.               *)
(***************************************************************************)
\* stripped_line.startswith(("/*", "*"), 0, 2)
IsComment(line) ==
    LET stripped_line == Strip(line)
    IN  StartsWith(stripped_line, <<"/", "*">>, 0, 2) \/ StartsWith(stripped_line, <<"*">>, 0, 2)

\* line.startswith("  ", 0, 4) and not line.startswith(chr(9))
IndentWithSpaces(line) ==
    StartsWith(line, <<" ", " ">>, 0, 4) /\ ~StartsWith(line, <<"\t">>, 0, Len(line))

\* the previous line of a function declaration that needs no empty line
AllowedPrevLine(line) ==
    LET prev_line == Strip(line)
    IN  \/ prev_line = <<>>
        \/ Contains(prev_line, <<"#">>)
        \/ Contains(prev_line, <<"/", "/">>)
        \/ Contains(prev_line, <<"/", "*">>)
        \/ Contains(prev_line, <<"*", "/">>)

NErrorRules == Len(ERROR_REGEXPS)

NWarningRules == Len(WARNING_REGEXPS)

LineFacts(line) ==
    [is_comment     |-> IsComment(line),
     string_match   |-> Search(IS_STRING_RE, line, FALSE),
     pointer_match  |-> Search(IS_POINTER_RE, line, FALSE),
     function_match |-> Search(IS_FUNCTION_DECLARATION_RE, line, FALSE),
     non_ascii_match |-> Search(IS_NON_ASCII, line, FALSE),
     indent         |-> IndentWithSpaces(line),
     allowed_prev   |-> AllowedPrevLine(line),
     brace_first    |-> StartsWith(line, <<"{">>, 0, Len(line)),
     is_newline     |-> line = <<"\n">>,
     err  |-> [r \in 1..NErrorRules |-> Search(ERROR_REGEXPS[r].re, line, FALSE)],
     warn |-> [r \in 1..NWarningRules |->
                 Search(WARNING_REGEXPS[r].re, line, WarningIgnoreCase(WARNING_REGEXPS[r].name))]]

\* the context of every line of the corpus, computed once
Facts == [id \in LineIds |-> LineFacts(Corpus[id])]

(***************************************************************************)
(* score_func                                                              *)
(***************************************************************************)
\* exp(-x) is computed in fixed point with eight decimal digits:
\* FixOne stands for 1.0 and ExpStep for exp(-1 / 10.7) = 0.91077632...
FixOne == 100000000

FixBase == 10000

ExpStep == 91077632

\* floor(a * b / FixOne), the product taken by halves to stay within 32 bits
MulFix(a, b) ==
    LET ah == a \div FixBase
        al == a % FixBase
        bh == b \div FixBase
        bl == b % FixBase
    IN  ah * bh + ((ah * bl + al * bh + ((al * bl) \div FixBase)) \div FixBase)

RECURSIVE ExpNeg(_, _)
\* acc * exp(-x / 10.7)
ExpNeg(acc, x) == IF x = 0 \/ acc = 0 THEN acc ELSE ExpNeg(MulFix(acc, ExpStep), x - 1)

\* math.exp(x / 10.7) raises OverflowError when its result exceeds the largest
\* double: x / 10.7 > 709.7827..., that is x > 7594.675
ExpOverflows(x) == x * 1000 > 7594675

\* x = floor(errors + warnings/5)
FloorSum(errs, warns) == errs + (warns \div 5)

\* score_func(errors, warnings): the value returned, or the exception raised
score_func(errs, warns) ==
    LET x == FloorSum(errs, warns)
    IN  IF ExpOverflows(x)
        THEN [raised |-> "OverflowError", value |-> 0]
        ELSE [raised |-> "none", value |-> ExpNeg(FixOne, x) \div (FixOne \div 100)]

(***************************************************************************)
(* Bounds of the model.                                                    *)
(***************************************************************************)
\* the longest file
MaxLines == 2

\* ScoreSpec: the error and warning totals score_func is applied to are
\* 0..MaxErrors and 0..MaxWarnings, and the error totals around HugeErrors
MaxErrors == 60

MaxWarnings == 11

HugeErrors == 7595

\* the files: what readlines() can return, lines of the corpus
Files ==
    {f \in UNION {[1..n -> LineIds] : n \in 0..MaxLines} :
        \A i \in 1..(Len(f) - 1) : Corpus[f[i]][Len(Corpus[f[i]])] = "\n"}

(***************************************************************************)
(* The state.                                                              *)
(***************************************************************************)
VARIABLES
    lines,          \* check_file: the lines of the file (ids of corpus lines)
    is_verbose,     \* the --verbose flag
    pc,             \* where the program is
    line_num,       \* check_file: the 0-based index of the line being checked
    rule_idx,       \* the rule a sweep is at (its place in the registry)
    errors,         \* check_file: the error count of the file
    warnings,       \* check_file: the warning count of the file
    out,            \* the diagnostics printed by log_cprint, in order
    ret,            \* the tally check_file returned, <<>> before it returns
    exception,      \* the exception that ended the program, "none" otherwise
    total_errors,
    total_warnings,
    score,          \* the style score printed, -1 before
    exit_status     \* the status of sys.exit, -1 before

vars == <<lines, is_verbose, pc, line_num, rule_idx, errors, warnings, out, ret,
          exception, total_errors, total_warnings, score, exit_status>>

\* log_cprint(level, rule, file, line_num, ...): one diagnostic on the console
log_cprint(level, rule, n) == [level |-> level, rule |-> rule, line_num |-> n]

\* the context of line n (0-based) of the file
Ctx(n) == Facts[Index(lines, n)]

Init ==
    /\ lines \in Files
    /\ is_verbose \in BOOLEAN
    /\ pc = "open"
    /\ line_num = 0
    /\ rule_idx = 1
    /\ errors = 0
    /\ warnings = 0
    /\ out = <<>>
    /\ ret = <<>>
    /\ exception = "none"
    /\ total_errors = 0
    /\ total_warnings = 0
    /\ score = -1
    /\ exit_status = -1

(***************************************************************************)
(* check_file                                                              *)
(***************************************************************************)
\* an empty file counted as an error
EmptyFileTallyAsError == <<1, 0>>

\* return (0, 1): the tally of a file without lines
EmptyFileTally == <<0, 1>>

\* readlines(), the empty file, the counts set to 0
Open ==
    /\ pc = "open"
    /\ IF Len(lines) < 1
       THEN /\ out' = Append(out, log_cprint("WARNING", "empty_file", 0))
            /\ ret' = EmptyFileTally
            /\ pc' = "returned"
            /\ UNCHANGED <<errors, warnings, line_num>>
       ELSE /\ errors' = 0
            /\ warnings' = 0
            /\ line_num' = 0
            /\ pc' = "indent"
            /\ UNCHANGED <<out, ret>>
    /\ UNCHANGED <<lines, is_verbose, rule_idx, exception, total_errors,
                   total_warnings, score, exit_status>>

CheckIndent ==
    /\ pc = "indent"
    /\ IF Ctx(line_num).indent
       THEN /\ errors' = errors + 1
            /\ out' = Append(out, log_cprint("ERROR", "invalid_line_indent_with_spaces", line_num))
       ELSE UNCHANGED <<errors, out>>
    /\ pc' = "non_ascii"
    /\ UNCHANGED <<lines, is_verbose, line_num, rule_idx, warnings, ret, exception,
                   total_errors, total_warnings, score, exit_status>>

CheckNonAscii ==
    /\ pc = "non_ascii"
    /\ IF Ctx(line_num).non_ascii_match # -1
       THEN /\ errors' = errors + 1
            /\ out' = Append(out, log_cprint("ERROR", "non_ascii_character", line_num))
       ELSE UNCHANGED <<errors, out>>
    /\ pc' = "func_above"
    /\ UNCHANGED <<lines, is_verbose, line_num, rule_idx, warnings, ret, exception,
                   total_errors, total_warnings, score, exit_status>>

\* the guard without its line_num > 0
FunctionAboveGuardAnyLine(function_match, n) == function_match

\* if function_match and line_num > 0
FunctionAboveGuard(function_match, n) == function_match /\ n > 0

CheckFunctionAbove ==
    /\ pc = "func_above"
    /\ IF /\ FunctionAboveGuard(Ctx(line_num).function_match # -1, line_num)
          /\ ~Ctx(line_num - 1).allowed_prev
       THEN /\ errors' = errors + 1
            /\ out' = Append(out, log_cprint("ERROR", "function_without_empty_line_above", line_num))
       ELSE UNCHANGED <<errors, out>>
    /\ pc' = "func_brace"
    /\ UNCHANGED <<lines, is_verbose, line_num, rule_idx, warnings, ret, exception,
                   total_errors, total_warnings, score, exit_status>>

\* if function_match and not lines[line_num + 1].startswith("{")
CheckFunctionBrace ==
    /\ pc = "func_brace"
    /\ IF Ctx(line_num).function_match = -1
       THEN /\ pc' = "errors"
            /\ UNCHANGED <<warnings, out, exception>>
       ELSE IF ~InRange(lines, line_num + 1)
       THEN /\ pc' = "raised"
            /\ exception' = "IndexError"
            /\ UNCHANGED <<warnings, out>>
       ELSE IF ~Ctx(line_num + 1).brace_first
       THEN /\ warnings' = warnings + 1
            /\ out' = Append(out, log_cprint("WARNING",
                                 "function_brace_not_on_line_below_declaration", line_num))
            /\ pc' = "errors"
            /\ UNCHANGED exception
       ELSE /\ pc' = "errors"
            /\ UNCHANGED <<warnings, out, exception>>
    /\ rule_idx' = 1
    /\ UNCHANGED <<lines, is_verbose, line_num, errors, ret, total_errors,
                   total_warnings, score, exit_status>>

\* sweeps that skip no rule on a comment line
SkipInCommentNever(is_comment, rule) == FALSE

\* if is_comment and rule not in COMMENT_CHECKS: continue
SkipInComment(is_comment, rule) == is_comment /\ rule \notin COMMENT_CHECKS

\* a sweep without the pointer case
PointerDemotesNever(pointer_match, rule) == FALSE

\* if pointer_match and rule == "invalid_multiplicative_spacing"
PointerDemotes(pointer_match, rule) ==
    pointer_match /\ rule = "invalid_multiplicative_spacing"

\* if string_match and string_match.start() < re_match.start()
StringBefore(string_start, re_start) == string_start # -1 /\ string_start < re_start

\* What one round of the error sweep prints for a rule on a line: "ERROR",
\* "POTENTIAL_ERROR" or "none"
ErrorRuleOutcome(r, ctx, verbose) ==
    LET rule == ERROR_REGEXPS[r].name
        re_start == ctx.err[r]
    IN  IF SkipInComment(ctx.is_comment, rule) THEN "none"
        ELSE IF re_start = -1 THEN "none"
        ELSE IF PointerDemotes(ctx.pointer_match # -1, rule)
        THEN (IF verbose THEN "POTENTIAL_ERROR" ELSE "none")
        ELSE IF StringBefore(ctx.string_match, re_start) /\ rule \notin COMMENT_CHECKS
        THEN "none"
        ELSE IF StringBefore(ctx.string_match, re_start) /\ verbose
        THEN "POTENTIAL_ERROR"
        ELSE "ERROR"

\* a count that takes a POTENTIAL_ERROR for an error
ErrorIncrementAnyLevel(level) == IF level = "none" THEN 0 ELSE 1

\* errors += 1 follows the ERROR diagnostic only
ErrorIncrement(level) == IF level = "ERROR" THEN 1 ELSE 0

\* one round of: for rule, regex in ERROR_REGEXPS.items()
ErrorRule ==
    /\ pc = "errors"
    /\ LET level == ErrorRuleOutcome(rule_idx, Ctx(line_num), is_verbose)
       IN  /\ out' = IF level = "none" THEN out
                     ELSE Append(out, log_cprint(level, ERROR_REGEXPS[rule_idx].name, line_num))
           /\ errors' = errors + ErrorIncrement(level)
    /\ IF rule_idx < NErrorRules
       THEN /\ rule_idx' = rule_idx + 1
            /\ pc' = "errors"
       ELSE /\ rule_idx' = 1
            /\ pc' = "warnings"
    /\ UNCHANGED <<lines, is_verbose, line_num, warnings, ret, exception,
                   total_errors, total_warnings, score, exit_status>>

\* one round of: for rule, regex in WARNING_REGEXPS.items(); after the last
\* round the line loop goes on to the next line, or ends
WarningRule ==
    /\ pc = "warnings"
    /\ LET rule == WARNING_REGEXPS[rule_idx].name
           fires == /\ ~SkipInComment(Ctx(line_num).is_comment, rule)
                    /\ Ctx(line_num).warn[rule_idx] # -1
       IN  IF fires
           THEN /\ out' = Append(out, log_cprint("WARNING", rule, line_num))
                /\ warnings' = warnings + 1
           ELSE UNCHANGED <<out, warnings>>
    /\ IF rule_idx < NWarningRules
       THEN /\ rule_idx' = rule_idx + 1
            /\ UNCHANGED <<pc, line_num>>
       ELSE /\ rule_idx' = 1
            /\ IF line_num + 1 < Len(lines)
               THEN /\ line_num' = line_num + 1
                    /\ pc' = "indent"
               ELSE /\ pc' = "eof"
                    /\ UNCHANGED line_num
    /\ UNCHANGED <<lines, is_verbose, errors, ret, exception, total_errors,
                   total_warnings, score, exit_status>>

\* if lines[-1] == "\n": ...; return (errors, warnings)
CheckEof ==
    /\ pc = "eof"
    /\ IF Ctx(-1).is_newline
       THEN /\ out' = Append(out, log_cprint("WARNING", "eof_on_newline", Len(lines)))
            /\ warnings' = warnings + 1
       ELSE UNCHANGED <<out, warnings>>
    /\ ret' = <<errors, warnings'>>
    /\ pc' = "returned"
    /\ UNCHANGED <<lines, is_verbose, line_num, rule_idx, errors, exception,
                   total_errors, total_warnings, score, exit_status>>

(***************************************************************************)
(* The main program, for a run on one file.                                *)
(***************************************************************************)
\* e, w = check_file(file); total_errors += e; total_warnings += w
Accumulate ==
    /\ pc = "returned"
    /\ total_errors' = total_errors + ret[1]
    /\ total_warnings' = total_warnings + ret[2]
    /\ pc' = "summary"
    /\ UNCHANGED <<lines, is_verbose, line_num, rule_idx, errors, warnings, out, ret,
                   exception, score, exit_status>>

\* the summary, the style score and the exit status
Summary ==
    /\ pc = "summary"
    /\ LET s == score_func(total_errors, total_warnings)
       IN  IF s.raised # "none"
           THEN /\ exception' = s.raised
                /\ pc' = "raised"
                /\ UNCHANGED <<score, exit_status>>
           ELSE /\ score' = s.value
                /\ exit_status' = IF total_errors # 0 THEN 1 ELSE 0
                /\ pc' = "exited"
                /\ UNCHANGED exception
    /\ UNCHANGED <<lines, is_verbose, line_num, rule_idx, errors, warnings, out, ret,
                   total_errors, total_warnings>>

Next ==
    \/ Open
    \/ CheckIndent
    \/ CheckNonAscii
    \/ CheckFunctionAbove
    \/ CheckFunctionBrace
    \/ ErrorRule
    \/ WarningRule
    \/ CheckEof
    \/ Accumulate
    \/ Summary

Spec == Init /\ [][Next]_vars

(***************************************************************************)
(* score_func alone: the totals are drawn from bounded sets and the        *)
(* summary applies score_func to them.                                     *)
(***************************************************************************)
ErrorTotals == (0..MaxErrors) \cup ((HugeErrors - 2)..(HugeErrors + 2))

ScoreInit ==
    /\ lines = <<>>
    /\ is_verbose = FALSE
    /\ pc = "summary"
    /\ line_num = 0
    /\ rule_idx = 1
    /\ errors = 0
    /\ warnings = 0
    /\ out = <<>>
    /\ ret = <<>>
    /\ exception = "none"
    /\ total_errors \in ErrorTotals
    /\ total_warnings \in 0..MaxWarnings
    /\ score = -1
    /\ exit_status = -1

ScoreNext == Summary

ScoreSpec == ScoreInit /\ [][ScoreNext]_vars

(***************************************************************************)
(* What the claims speak of.                                               *)
(***************************************************************************)
\* the 0-based line numbers of the file
LineNums == 0..(Len(lines) - 1)

Emitted(level, rule, n) == \E i \in DOMAIN out : out[i] = log_cprint(level, rule, n)

Count(level, rule, n) == Cardinality({i \in DOMAIN out : out[i] = log_cprint(level, rule, n)})

CountLevel(level) == Cardinality({i \in DOMAIN out : out[i].level = level})

ErrorRuleIndex(name) == CHOOSE r \in 1..NErrorRules : ERROR_REGEXPS[r].name = name

\* every check of line n has been made
LineDone(n) == n < line_num \/ pc \in {"eof", "returned", "summary", "exited"}

\* the error sweep of line n is past rule r
ErrorSwept(n, r) ==
    \/ LineDone(n)
    \/ n = line_num /\ pc = "errors" /\ rule_idx > r
    \/ n = line_num /\ pc = "warnings"

\* the warning sweep of line n is past rule r
WarningSwept(n, r) ==
    \/ LineDone(n)
    \/ n = line_num /\ pc = "warnings" /\ rule_idx > r

\* string_match.end() of each line of the corpus: the end of the leftmost and
\* (.*? is lazy) shortest match, -1 for no match
StringEnds ==
    [id \in LineIds |->
        IF Facts[id].string_match = -1 THEN -1
        ELSE SetMin(Ends(IS_STRING_RE, Corpus[id], Facts[id].string_match + 1, FALSE)) - 1]

\* whether each of the brace-style patterns matches each line of the corpus
BraceMatch ==
    [id \in LineIds |->
        [if_re   |-> Search(IF_BRACE_RE, Corpus[id], FALSE) # -1,
         else_re |-> Search(ELSE_BRACE_RE, Corpus[id], FALSE) # -1]]

BraceRuleEntries ==
    {r \in 1..NWarningRules : WARNING_REGEXPS[r].name = "violation_of_one_true_brace_style"}

SweepRules ==
    {ERROR_REGEXPS[r].name : r \in 1..NErrorRules}
        \cup {WARNING_REGEXPS[r].name : r \in 1..NWarningRules}

\* C1: whenever a comment-applicable rule matches a line whose leftmost string
\* literal starts before the match, no ERROR is printed for it, and a
\* POTENTIAL_ERROR is printed exactly in verbose mode.
C1_DemotedInBothModes ==
    \A n \in LineNums : \A r \in 1..NErrorRules :
        LET rule == ERROR_REGEXPS[r].name
        IN  (/\ rule \in COMMENT_CHECKS
             /\ ErrorSwept(n, r)
             /\ Ctx(n).err[r] # -1
             /\ Ctx(n).string_match # -1
             /\ Ctx(n).string_match < Ctx(n).err[r])
            => /\ ~Emitted("ERROR", rule, n)
               /\ Emitted("POTENTIAL_ERROR", rule, n) <=> is_verbose

\* C2: a rule whose match begins at or after the end of the string literal of
\* the line (and that neither the comment skip nor the pointer demotion
\* concerns) fires: an ERROR is printed for it.
C2_FiresAfterString ==
    \A n \in LineNums : \A r \in 1..NErrorRules :
        LET rule == ERROR_REGEXPS[r].name
        IN  (/\ ErrorSwept(n, r)
             /\ Ctx(n).err[r] # -1
             /\ Ctx(n).string_match # -1
             /\ Ctx(n).err[r] >= StringEnds[Index(lines, n)]
             /\ ~SkipInComment(Ctx(n).is_comment, rule)
             /\ ~PointerDemotes(Ctx(n).pointer_match # -1, rule))
            => Emitted("ERROR", rule, n)

\* C3 as stated: on the first line of a file neither of the two function
\* spacing diagnostics is printed.
C3_NeitherOnFirstLine ==
    \A i \in DOMAIN out :
        out[i].line_num = 0 =>
            out[i].rule \notin {"function_without_empty_line_above",
                                "function_brace_not_on_line_below_declaration"}

\* the brace check of line 0 has been made and did not raise
FirstBraceChecked ==
    line_num > 0 \/ pc \in {"errors", "warnings", "eof", "returned", "summary", "exited"}

\* C3 as amended: function_without_empty_line_above is never printed for the
\* first line; the brace check is made on the first line too, and prints its
\* warning for a first line that is a function declaration exactly when the
\* second line does not start with "{".
C3_OnlyAboveCheckSkipsFirstLine ==
    /\ \A i \in DOMAIN out :
           out[i].line_num = 0 => out[i].rule # "function_without_empty_line_above"
    /\ (Len(lines) >= 2 /\ FirstBraceChecked /\ Ctx(0).function_match # -1)
           => (Emitted("WARNING", "function_brace_not_on_line_below_declaration", 0)
                   <=> ~Ctx(1).brace_first)

C3_Witness ==
    /\ Len(lines) >= 2
    /\ Ctx(0).function_match # -1
    /\ Emitted("WARNING", "function_brace_not_on_line_below_declaration", 0)

\* C4: for a file without lines check_file prints exactly one diagnostic, the
\* WARNING empty_file, makes no per-line and no end-of-file check, and returns
\* (0, 1).
C4_EmptyFile ==
    (Len(lines) = 0 /\ pc # "open")
        => /\ out = <<log_cprint("WARNING", "empty_file", 0)>>
           /\ ret = <<0, 1>>
           /\ pc \in {"returned", "summary", "exited"}
           /\ exception = "none"

C4_Witness == Len(lines) = 0 /\ pc = "returned" /\ Len(out) = 1

\* C5: score_func(0, 0) = 100, and for all error and warning counts score_func
\* is an integer in 0..100 that does not grow when either count grows by one.
C5_ScoreBoundedMonotone ==
    pc # "summary"
        => /\ exception = "none"
           /\ score \in 0..100
           /\ (total_errors = 0 /\ total_warnings = 0) => score = 100
           /\ LET more_errors == score_func(total_errors + 1, total_warnings)
                  more_warnings == score_func(total_errors, total_warnings + 1)
              IN  /\ more_errors.raised = "none" => more_errors.value <= score
                  /\ more_warnings.raised = "none" => more_warnings.value <= score

\* C6 as stated: one brace-style rule is left in the registry, and the warning
\* sweep prints violation_of_one_true_brace_style for a line exactly when the
\* if pattern matches it.
C6_IfPatternSurvives ==
    /\ Cardinality(BraceRuleEntries) = 1
    /\ \A n \in LineNums : \A r \in BraceRuleEntries :
           (WarningSwept(n, r) /\ ~Ctx(n).is_comment)
               => (Emitted("WARNING", "violation_of_one_true_brace_style", n)
                       <=> BraceMatch[Index(lines, n)].if_re)

\* C6 as amended: one brace-style rule is left in the registry, and the warning
\* sweep prints violation_of_one_true_brace_style for a line exactly when the
\* else pattern, the last of the four, matches it.
C6_ElsePatternSurvives ==
    /\ Cardinality(BraceRuleEntries) = 1
    /\ \A n \in LineNums : \A r \in BraceRuleEntries :
           (WarningSwept(n, r) /\ ~Ctx(n).is_comment)
               => (Emitted("WARNING", "violation_of_one_true_brace_style", n)
                       <=> BraceMatch[Index(lines, n)].else_re)

C6_Witness ==
    /\ pc = "returned"
    /\ \E n \in LineNums :
           /\ BraceMatch[Index(lines, n)].else_re
           /\ Emitted("WARNING", "violation_of_one_true_brace_style", n)
    /\ \E n \in LineNums :
           /\ BraceMatch[Index(lines, n)].if_re
           /\ ~BraceMatch[Index(lines, n)].else_re
           /\ ~Ctx(n).is_comment
           /\ ~Emitted("WARNING", "violation_of_one_true_brace_style", n)

\* the error sweep is at the multiplicative rule, on a line where the rule and
\* the pointer pattern both match
AtPointerCase ==
    /\ pc = "errors"
    /\ ERROR_REGEXPS[rule_idx].name = "invalid_multiplicative_spacing"
    /\ ~Ctx(line_num).is_comment
    /\ Ctx(line_num).err[rule_idx] # -1
    /\ Ctx(line_num).pointer_match # -1

\* C7: when the error sweep finds a match of invalid_multiplicative_spacing on
\* a line where the pointer pattern matches too, no ERROR is ever printed for
\* the rule on that line and the error count stays as it is; one
\* POTENTIAL_ERROR is printed in verbose mode and nothing otherwise.
C7_PointerDemoted ==
    /\ [](\A n \in LineNums :
            LET r == ErrorRuleIndex("invalid_multiplicative_spacing")
            IN  (Ctx(n).pointer_match # -1 /\ Ctx(n).err[r] # -1)
                => /\ ~Emitted("ERROR", "invalid_multiplicative_spacing", n)
                   /\ (ErrorSwept(n, r) /\ ~Ctx(n).is_comment)
                        => Count("POTENTIAL_ERROR", "invalid_multiplicative_spacing", n)
                               = IF is_verbose THEN 1 ELSE 0)
    /\ [][AtPointerCase
            => /\ errors' = errors
               /\ Len(out') = Len(out) + IF is_verbose THEN 1 ELSE 0]_vars

C7_Witness ==
    \E n \in LineNums :
        /\ Ctx(n).pointer_match # -1
        /\ Ctx(n).err[ErrorRuleIndex("invalid_multiplicative_spacing")] # -1
        /\ ~Ctx(n).is_comment
        /\ LineDone(n)
        /\ is_verbose
        /\ Emitted("POTENTIAL_ERROR", "invalid_multiplicative_spacing", n)

\* a sweep is at a rule that is not comment-applicable, on a comment line
AtSkippedRule ==
    /\ pc \in {"errors", "warnings"}
    /\ Ctx(line_num).is_comment
    /\ (IF pc = "errors" THEN ERROR_REGEXPS[rule_idx].name
                         ELSE WARNING_REGEXPS[rule_idx].name) \notin COMMENT_CHECKS

\* C8: on a comment line the two sweeps print diagnostics for the three
\* comment-applicable error rules only: every other rule of the two
\* registries prints nothing and leaves both counts as they are.
C8_CommentLines ==
    /\ [](\A i \in DOMAIN out :
            (/\ out[i].rule \in SweepRules
             /\ out[i].line_num \in LineNums
             /\ Ctx(out[i].line_num).is_comment)
            => out[i].rule \in COMMENT_CHECKS)
    /\ [][AtSkippedRule
            => out' = out /\ errors' = errors /\ warnings' = warnings]_vars

C8_Witness ==
    \E n \in LineNums :
        /\ Ctx(n).is_comment
        /\ LineDone(n)
        /\ \E r \in 1..NErrorRules :
               ERROR_REGEXPS[r].name \notin COMMENT_CHECKS /\ Ctx(n).err[r] # -1
        /\ \E r \in 1..NWarningRules : Ctx(n).warn[r] # -1
        /\ Emitted("ERROR", "single_line_comment", n)

\* C9: the error count is the number of ERROR diagnostics printed so far and
\* the warning count the number of WARNING diagnostics (so a POTENTIAL_ERROR
\* changes neither), in both modes; the tally returned is these two counts;
\* no count ever decreases and no diagnostic is taken back.
C9_CountsMatchDiagnostics ==
    /\ [](/\ ret = <<>> => /\ errors = CountLevel("ERROR")
                           /\ warnings = CountLevel("WARNING")
          /\ ret # <<>> => ret = <<CountLevel("ERROR"), CountLevel("WARNING")>>)
    /\ [][/\ errors' >= errors
          /\ warnings' >= warnings
          /\ Len(out') >= Len(out)
          /\ SubSeq(out', 1, Len(out)) = out]_vars

C9_Witness ==
    /\ pc = "returned"
    /\ CountLevel("POTENTIAL_ERROR") >= 1
    /\ errors >= 1
    /\ warnings >= 1

\* C10: for a file with at least one line check_file never reads past the
\* last line: no IndexError ends the scan.
C10_NeverReadsPastLastLine ==
    Len(lines) >= 1 => exception # "IndexError"

====
